---- MODULE Spec2Model ----
(***************************************************************************)
(* Model of the FERC1 XBRL transform notebook                              *)
(* (notebooks/work-in-progress/transform_xbrl.ipynb) and of the deployment *)
(* entrypoint script (docker/pudl_etl.sh).                                 *)
(***************************************************************************)
EXTENDS Integers, Sequences, FiniteSets, TLC

\* ------------------------------------------------------------------ bounds
MaxPairs == 2
MaxExit == 2

\* --------------------------------------------------------------- constants
XBRL_FUEL_DURATION == "steam_electric_generating_plant_statistics_large_plants_fuel_statistics_402_duration"
XBRL_STEAM_DURATION == "steam_electric_generating_plant_statistics_large_plants_402_duration"
XBRL_STEAM_INSTANT == "steam_electric_generating_plant_statistics_large_plants_402_instant"

\* Ferc1XbrlSettings(tables=[...]): the tables the XBRL extraction is asked for
XbrlSettingsTables == {XBRL_FUEL_DURATION, XBRL_STEAM_DURATION, XBRL_STEAM_INSTANT}

\* rename_dict with the instant and duration targets of plants_steam_ferc1 exchanged
DeclaredRenameDictSwapped ==
    << <<"plants_steam_ferc1_duration", XBRL_STEAM_INSTANT>>,
       <<"plants_steam_ferc1_instant", XBRL_STEAM_DURATION>>,
       <<"fuel_ferc1_duration", XBRL_FUEL_DURATION>> >>

\* rename_dict, as the list rename_dict.items() yields: <<dict key, dict value>>
DeclaredRenameDict ==
    << <<"plants_steam_ferc1_duration", XBRL_STEAM_DURATION>>,
       <<"plants_steam_ferc1_instant", XBRL_STEAM_INSTANT>>,
       <<"fuel_ferc1_duration", XBRL_FUEL_DURATION>> >>

None == "None"
Tables == {"T1", "T2", "T3"}
DbfTables == {"D1"}

\* keys of the notebook's XBRL raw table dict
NotebookKeys == XbrlSettingsTables \cup {DeclaredRenameDict[n][1] : n \in 1..Len(DeclaredRenameDict)}
\* keys used for arbitrary rename maps
ScenarioKeys == {"plants_steam_ferc1_duration", "fuel_ferc1_duration",
                 XBRL_STEAM_DURATION, XBRL_FUEL_DURATION}

VARIABLES
    rename_dict,          \* the rename map being applied, a sequence of <<key, value>>
    ferc1_xbrl_raw_dfs,   \* the XBRL raw table dict, mutated in place
    raw_before,           \* history: ferc1_xbrl_raw_dfs before the rename cell ran
    i,                    \* number of rename_dict items the loop has completed
    ferc1_dbf_raw_dfs,    \* the DBF raw table dict
    pc,                   \* position in the notebook
    error,                \* the exception that aborted the notebook, or None
    fuel_df, steam_df,    \* results of the two transforms (None until produced)
    fuel_call, steam_call,\* <<arguments>> of each execute() call made (<<>> until called)
    dispatch_call,        \* <<arguments>> of a dispatch(table_name, dependency_results)
    dispatch_out,         \* <<outcome>> of that dispatch, <<>> until it has run
    sh_pc,                \* position in docker/pudl_etl.sh
    github_sha_ref,       \* "$GITHUB_SHA-$GITHUB_REF"
    slack_msgs,           \* texts posted by send_slack_msg, in order
    ignored_status,       \* exit statuses the script never looks at (curl, gcloud)
    started,              \* stages of run_pudl_etl started so far, in order
    stage_status,         \* exit status of every stage that has exited
    PIPESTATUS,           \* <<run_pudl_etl's status, tee's status>> once the pipeline ended
    gcs_copies            \* number of gsutil copies of the output directory made

renvars == <<rename_dict, ferc1_xbrl_raw_dfs, raw_before, i>>
trvars == <<ferc1_dbf_raw_dfs, fuel_df, steam_df, fuel_call, steam_call>>
dispvars == <<dispatch_call, dispatch_out>>
shvars == <<sh_pc, github_sha_ref, slack_msgs, ignored_status, started, stage_status,
            PIPESTATUS, gcs_copies>>

vars == <<renvars, trvars, pc, error, dispvars, shvars>>

\* ------------------------------------------------------------ dict helpers
PartialFns(K, V) == UNION {[S -> V] : S \in SUBSET K}

\* dict.get(key, None)
Get(d, k) == IF k \in DOMAIN d THEN d[k] ELSE None

\* dict without key k (the dict left behind by d.pop(k))
Pop(d, k) == [x \in (DOMAIN d) \ {k} |-> d[x]]

\* d[k] = v
SetItem(d, k, v) == [x \in (DOMAIN d) \cup {k} |-> IF x = k THEN v ELSE d[x]]

\* a Python dict's items(): keys are unique
IsDictItems(s) == \A m, n \in 1..Len(s) : m # n => s[m][1] # s[n][1]

RenameDicts(K, maxlen) ==
    {s \in UNION {[1..m -> K \X K] : m \in 0..maxlen} : IsDictItems(s)}

\* ------------------------------------------------------------- rename cell
\* the rename written the other way round: dfs[xbrl_name] = dfs.pop(pudl_name)
RenameItemSwapped(dfs, item) ==
    LET pudl_name == item[1]
        xbrl_name == item[2]
    IN  IF pudl_name \in DOMAIN dfs
        THEN [raised |-> None, dfs |-> SetItem(Pop(dfs, pudl_name), xbrl_name, dfs[pudl_name])]
        ELSE [raised |-> "KeyError", dfs |-> dfs]

\* ferc1_xbrl_raw_dfs[pudl_name] = ferc1_xbrl_raw_dfs.pop(xbrl_name) for one item
\* <<pudl_name, xbrl_name>>: the pop is evaluated first and raises KeyError on an
\* absent key, before anything is stored
RenameItem(dfs, item) ==
    LET pudl_name == item[1]
        xbrl_name == item[2]
    IN  IF xbrl_name \in DOMAIN dfs
        THEN [raised |-> None, dfs |-> SetItem(Pop(dfs, xbrl_name), pudl_name, dfs[xbrl_name])]
        ELSE [raised |-> "KeyError", dfs |-> dfs]

\* one iteration of: for pudl_name, xbrl_name in rename_dict.items():
\*                       ferc1_xbrl_raw_dfs[pudl_name] = ferc1_xbrl_raw_dfs.pop(xbrl_name)
RenameIter ==
    /\ pc = "rename"
    /\ i < Len(rename_dict)
    /\ LET o == RenameItem(ferc1_xbrl_raw_dfs, rename_dict[i + 1])
       IN  /\ o.raised = None
           /\ ferc1_xbrl_raw_dfs' = o.dfs
    /\ i' = i + 1
    /\ UNCHANGED <<rename_dict, raw_before, trvars, pc, error, dispvars, shvars>>

\* the iteration raises; nothing catches it, the cell aborts
RenameKeyError ==
    /\ pc = "rename"
    /\ i < Len(rename_dict)
    /\ LET o == RenameItem(ferc1_xbrl_raw_dfs, rename_dict[i + 1])
       IN  /\ o.raised # None
           /\ error' = o.raised
    /\ pc' = "failed"
    /\ UNCHANGED <<renvars, trvars, dispvars, shvars>>

\* the loop has run out of items
RenameDone ==
    /\ pc = "rename"
    /\ i = Len(rename_dict)
    /\ pc' = "renamed"
    /\ UNCHANGED <<renvars, trvars, error, dispvars, shvars>>

\* ---------------------------------------------------------- transform cell
FuelResults == {"F1", "F2"}
SteamResults == {"S1", "S2"}

\* the keyword arguments of the two execute() calls
ExecuteArgs(table) ==
    [table_name |-> table,
     raw_dbf |-> Get(ferc1_dbf_raw_dfs, table),
     raw_xbrl_instant |-> Get(ferc1_xbrl_raw_dfs, table \o "_instant"),
     raw_xbrl_duration |-> Get(ferc1_xbrl_raw_dfs, table \o "_duration")]

\* fuel_trans.execute(...) is entered
FuelExecuteCall ==
    /\ pc = "renamed"
    /\ fuel_call' = <<ExecuteArgs("fuel_ferc1")>>
    /\ pc' = "fuel_running"
    /\ UNCHANGED <<renvars, ferc1_dbf_raw_dfs, fuel_df, steam_df, steam_call, error,
                   dispvars, shvars>>

\* ... and returns the table bound to fuel_df
FuelExecuteReturn ==
    /\ pc = "fuel_running"
    /\ \E df \in FuelResults : fuel_df' = df
    /\ pc' = "fuel_done"
    /\ UNCHANGED <<renvars, ferc1_dbf_raw_dfs, steam_df, fuel_call, steam_call, error,
                   dispvars, shvars>>

\* ... or raises, which aborts the cell
FuelExecuteRaise ==
    /\ pc = "fuel_running"
    /\ pc' = "failed"
    /\ error' = "FuelFerc1.execute"
    /\ UNCHANGED <<renvars, trvars, dispvars, shvars>>

\* the plants_steam_ferc1 call placed ahead of the fuel_ferc1 call
PlantsSteamExecuteCallEarly ==
    /\ pc \in {"renamed", "fuel_done"}
    /\ steam_call' = <<[args |-> ExecuteArgs("plants_steam_ferc1"),
                        transformed_fuel |-> fuel_df]>>
    /\ pc' = "steam_running"
    /\ UNCHANGED <<renvars, ferc1_dbf_raw_dfs, fuel_df, steam_df, fuel_call, error,
                   dispvars, shvars>>

PlantsSteamExecuteCall ==
    /\ pc = "fuel_done"
    /\ steam_call' = <<[args |-> ExecuteArgs("plants_steam_ferc1"),
                        transformed_fuel |-> fuel_df]>>
    /\ pc' = "steam_running"
    /\ UNCHANGED <<renvars, ferc1_dbf_raw_dfs, fuel_df, steam_df, fuel_call, error,
                   dispvars, shvars>>

PlantsSteamExecuteReturn ==
    /\ pc = "steam_running"
    /\ \E df \in SteamResults : steam_df' = df
    /\ pc' = "done"
    /\ UNCHANGED <<renvars, ferc1_dbf_raw_dfs, fuel_df, fuel_call, steam_call, error,
                   dispvars, shvars>>

PlantsSteamExecuteRaise ==
    /\ pc = "steam_running"
    /\ pc' = "failed"
    /\ error' = "PlantsSteamFerc1.execute"
    /\ UNCHANGED <<renvars, trvars, dispvars, shvars>>

\* ------------------------------------------------------------ idle parts
NoTransform ==
    /\ ferc1_dbf_raw_dfs = <<>>
    /\ fuel_df = None /\ steam_df = None
    /\ fuel_call = <<>> /\ steam_call = <<>>

NoDispatch == dispatch_call = <<>> /\ dispatch_out = <<>>

NoScript ==
    /\ sh_pc = "off"
    /\ github_sha_ref = None
    /\ slack_msgs = <<>>
    /\ ignored_status = <<>>
    /\ started = <<>>
    /\ stage_status = <<>>
    /\ PIPESTATUS = <<>>
    /\ gcs_copies = 0

NoNotebook ==
    /\ rename_dict = <<>>
    /\ ferc1_xbrl_raw_dfs = <<>>
    /\ raw_before = <<>>
    /\ i = 0
    /\ pc = "off"
    /\ error = None
    /\ NoTransform

\* ---------------------------------------------------------- specifications
\* reconcile(raw_table_set, rename_map) on arbitrary inputs
InitReconcile ==
    /\ rename_dict \in RenameDicts(ScenarioKeys, MaxPairs)
    /\ ferc1_xbrl_raw_dfs \in PartialFns(ScenarioKeys, Tables)
    /\ raw_before = ferc1_xbrl_raw_dfs
    /\ i = 0
    /\ pc = "rename"
    /\ error = None
    /\ NoTransform /\ NoDispatch /\ NoScript

NextReconcile == RenameIter \/ RenameKeyError \/ RenameDone

SpecReconcile == InitReconcile /\ [][NextReconcile]_vars

\* the notebook from the rename cell on, for any outcome of the two extractions
InitNotebook ==
    /\ rename_dict = DeclaredRenameDict
    /\ ferc1_xbrl_raw_dfs \in PartialFns(NotebookKeys, Tables)
    /\ raw_before = ferc1_xbrl_raw_dfs
    /\ i = 0
    /\ ferc1_dbf_raw_dfs \in PartialFns({"fuel_ferc1", "plants_steam_ferc1"}, DbfTables)
    /\ pc = "rename"
    /\ error = None
    /\ fuel_df = None /\ steam_df = None
    /\ fuel_call = <<>> /\ steam_call = <<>>
    /\ NoDispatch /\ NoScript

NextNotebook ==
    \/ RenameIter \/ RenameKeyError \/ RenameDone
    \/ FuelExecuteCall \/ FuelExecuteReturn \/ FuelExecuteRaise
    \/ PlantsSteamExecuteCall \/ PlantsSteamExecuteReturn \/ PlantsSteamExecuteRaise

SpecNotebook == InitNotebook /\ [][NextNotebook]_vars

\* ------------------------------------------------------ transform dispatch
\* dependencies a table's transform handler declares
Dependencies(table_name) ==
    IF table_name = "plants_steam_ferc1" THEN {"transformed_fuel"} ELSE {}

\* a dispatch that runs the handler whatever was supplied
DispatchOutcomeUnchecked(table_name, dependency_results) ==
    [error |-> None, tables |-> IF table_name = "fuel_ferc1" THEN FuelResults
                                                             ELSE SteamResults]

\* dispatch(table_name, dependency_results): the handler runs only when every
\* declared dependency was supplied
DispatchOutcome(table_name, dependency_results) ==
    IF Dependencies(table_name) \subseteq DOMAIN dependency_results
    THEN [error |-> None, tables |-> IF table_name = "fuel_ferc1" THEN FuelResults
                                                                  ELSE SteamResults]
    ELSE [error |-> "MissingDependencyError", tables |-> {None}]

Dispatch ==
    /\ dispatch_call # <<>>
    /\ dispatch_out = <<>>
    /\ LET o == DispatchOutcome(dispatch_call[1].table_name,
                                dispatch_call[1].dependency_results)
       IN  \E t \in o.tables : dispatch_out' = <<[error |-> o.error, table |-> t]>>
    /\ UNCHANGED <<renvars, trvars, pc, error, dispatch_call, shvars>>

InitDispatch ==
    /\ \E c \in [table_name : {"fuel_ferc1", "plants_steam_ferc1"},
                 raw_xbrl_instant : Tables \cup {None},
                 raw_xbrl_duration : Tables \cup {None},
                 dependency_results : PartialFns({"transformed_fuel"}, FuelResults)] :
          dispatch_call = <<c>>
    /\ dispatch_out = <<>>
    /\ NoNotebook /\ NoScript

NextDispatch == Dispatch

SpecDispatch == InitDispatch /\ [][NextDispatch]_vars

\* ------------------------------------------------------ docker/pudl_etl.sh
ExitCodes == 0..MaxExit
ShaRefs == {"sha1-dev", "sha2-v1"}
Stages == <<"pudl_setup", "ferc1_to_sqlite", "pudl_etl", "pytest test/unit">>

StartedText(ref) == ":large_yellow_circle: Deployment started for " \o ref

\* the text notify_slack builds for a deployment status
NotifySlackText(status, ref) ==
    IF status \in {"success", "failure"}
    THEN (IF status = "success" THEN ":large_green_circle: Deployment Succeeded\\n\\n "
                                ELSE ":large_red_square: Deployment Failed\\n\\n ")
         \o "See https://console.cloud.google.com/storage/browser/pudl-etl-logs/"
         \o ref \o " for logs and outputs."
    ELSE "Invalid deployment status"

\* send_slack_msg "$1": posts the text; the script ignores curl's exit status
SendSlackMsg(text, curl_status) ==
    /\ slack_msgs' = Append(slack_msgs, text)
    /\ ignored_status' = Append(ignored_status, curl_status)

\* run_pudl_etl, line 7
SlackStarted ==
    /\ sh_pc = "slack_started"
    /\ \E c \in ExitCodes : SendSlackMsg(StartedText(github_sha_ref), c)
    /\ sh_pc' = "gcloud"
    /\ UNCHANGED <<renvars, trvars, pc, error, dispvars, github_sha_ref, started,
                   stage_status, PIPESTATUS, gcs_copies>>

\* run_pudl_etl, line 10
GcloudSetProject ==
    /\ sh_pc = "gcloud"
    /\ \E c \in ExitCodes : ignored_status' = Append(ignored_status, c)
    /\ sh_pc' = Stages[1]
    /\ UNCHANGED <<renvars, trvars, pc, error, dispvars, github_sha_ref, slack_msgs,
                   started, stage_status, PIPESTATUS, gcs_copies>>

\* the stages joined by ";" instead of "&&": every stage runs, the last one's
\* status is returned
RunStageUnconditional(n) ==
    /\ sh_pc = Stages[n]
    /\ started' = Append(started, Stages[n])
    /\ \E c, tee \in ExitCodes :
          /\ stage_status' = Append(stage_status, c)
          /\ IF n < Len(Stages)
             THEN sh_pc' = Stages[n + 1] /\ PIPESTATUS' = PIPESTATUS
             ELSE sh_pc' = "report" /\ PIPESTATUS' = <<c, tee>>
    /\ UNCHANGED <<renvars, trvars, pc, error, dispvars, github_sha_ref, slack_msgs,
                   ignored_status, gcs_copies>>

\* stage n of the && list: on status 0 the list goes on, otherwise (or after the
\* last stage) run_pudl_etl returns the status and the pipeline into tee ends
RunStage(n) ==
    /\ sh_pc = Stages[n]
    /\ started' = Append(started, Stages[n])
    /\ \E c, tee \in ExitCodes :
          /\ stage_status' = Append(stage_status, c)
          /\ IF c = 0 /\ n < Len(Stages)
             THEN sh_pc' = Stages[n + 1] /\ PIPESTATUS' = PIPESTATUS
             ELSE sh_pc' = "report" /\ PIPESTATUS' = <<c, tee>>
    /\ UNCHANGED <<renvars, trvars, pc, error, dispvars, github_sha_ref, slack_msgs,
                   ignored_status, gcs_copies>>

\* lines 57-61
ReportStatus ==
    /\ sh_pc = "report"
    /\ \E c \in ExitCodes :
          SendSlackMsg(IF PIPESTATUS[1] = 0 THEN "success" ELSE "failure", c)
    /\ sh_pc' = "shutdown_vm"
    /\ UNCHANGED <<renvars, trvars, pc, error, dispvars, github_sha_ref, started,
                   stage_status, PIPESTATUS, gcs_copies>>

\* shutdown_vm reached only when the ETL succeeded
ShutdownVmOnSuccess ==
    /\ sh_pc = "shutdown_vm"
    /\ IF PIPESTATUS[1] = 0
       THEN gcs_copies' = gcs_copies + 1
       ELSE gcs_copies' = gcs_copies
    /\ sh_pc' = "exit"
    /\ UNCHANGED <<renvars, trvars, pc, error, dispvars, github_sha_ref, slack_msgs,
                   ignored_status, started, stage_status, PIPESTATUS>>

\* shutdown_vm: gsutil -m cp -r $CONTAINER_PUDL_OUT gs://pudl-etl-logs/...
ShutdownVm ==
    /\ sh_pc = "shutdown_vm"
    /\ gcs_copies' = gcs_copies + 1
    /\ sh_pc' = "exit"
    /\ UNCHANGED <<renvars, trvars, pc, error, dispvars, github_sha_ref, slack_msgs,
                   ignored_status, started, stage_status, PIPESTATUS>>

InitScript ==
    /\ sh_pc = "slack_started"
    /\ github_sha_ref \in ShaRefs
    /\ slack_msgs = <<>>
    /\ ignored_status = <<>>
    /\ started = <<>>
    /\ stage_status = <<>>
    /\ PIPESTATUS = <<>>
    /\ gcs_copies = 0
    /\ NoNotebook /\ NoDispatch

NextScript ==
    \/ SlackStarted \/ GcloudSetProject
    \/ \E n \in 1..Len(Stages) : RunStage(n)
    \/ ReportStatus \/ ShutdownVm

SpecScript == InitScript /\ [][NextScript]_vars

\* every command of the script terminates, so the script always takes its next step
FairSpecScript == SpecScript /\ WF_vars(NextScript)

\* ================================================================== claims
\* keys popped (old) and keys inserted (new) by the loop over a rename map
OldKeys(rd) == {rd[n][2] : n \in 1..Len(rd)}
NewKeys(rd) == {rd[n][1] : n \in 1..Len(rd)}

NonOverlapping(rd) ==
    /\ \A m, n \in 1..Len(rd) : m # n => rd[m][1] # rd[n][1] /\ rd[m][2] # rd[n][2]
    /\ OldKeys(rd) \cap NewKeys(rd) = {}

\* C1: for a rename map with pairwise distinct, non-overlapping old and new keys,
\* applied to a set holding every old key, the loop completes and leaves every
\* new key and no old key, each new key holding the value its old key held, and
\* the same number of entries as before.
C1_RenameKeepsEveryEntry ==
    (/\ NonOverlapping(rename_dict)
     /\ OldKeys(rename_dict) \subseteq DOMAIN raw_before
     /\ pc # "rename")
    => /\ pc = "renamed"
       /\ NewKeys(rename_dict) \subseteq DOMAIN ferc1_xbrl_raw_dfs
       /\ OldKeys(rename_dict) \cap DOMAIN ferc1_xbrl_raw_dfs = {}
       /\ \A n \in 1..Len(rename_dict) :
             ferc1_xbrl_raw_dfs[rename_dict[n][1]] = raw_before[rename_dict[n][2]]
       /\ Cardinality(DOMAIN ferc1_xbrl_raw_dfs) = Cardinality(DOMAIN raw_before)

\* C2: when a rename map of at least two pairs fails on an absent old key, the
\* raw table set is the one reconcile started with (no earlier rename remains).
C2_MissingKeyIsAtomic ==
    (pc = "failed" /\ error = "KeyError" /\ Len(rename_dict) >= 2)
    => ferc1_xbrl_raw_dfs = raw_before

\* C3: a pair whose new key is already in the raw table set (under another key
\* than the pair's old key, which is present) is never applied: reconcile fails
\* with a key-collision error instead of overwriting the table stored there.
C3_CollisionFails ==
    [][(/\ pc = "rename"
        /\ i < Len(rename_dict)
        /\ rename_dict[i + 1][1] # rename_dict[i + 1][2]
        /\ rename_dict[i + 1][1] \in DOMAIN ferc1_xbrl_raw_dfs
        /\ rename_dict[i + 1][2] \in DOMAIN ferc1_xbrl_raw_dfs
        /\ i' # i)
       => (pc' = "failed" /\ error' = "KeyCollisionError")]_vars

\* the rename map and the raw table sets of the spec's scenario
ScenarioRenameDict ==
    << <<"plants_steam_ferc1_duration", XBRL_STEAM_DURATION>>,
       <<"fuel_ferc1_duration", XBRL_FUEL_DURATION>> >>
PudlKeyed(t1, t2) ==
    [k \in {"plants_steam_ferc1_duration", "fuel_ferc1_duration"} |->
        IF k = "plants_steam_ferc1_duration" THEN t1 ELSE t2]
XbrlKeyed(t1, t2) ==
    [k \in {XBRL_STEAM_DURATION, XBRL_FUEL_DURATION} |->
        IF k = XBRL_STEAM_DURATION THEN t1 ELSE t2]

\* C4 as stated: from the PUDL-keyed set {plants_steam_ferc1_duration: T1,
\* fuel_ferc1_duration: T2} the rename loop produces the XBRL-keyed set
\* {steam_..._402_duration: T1, steam_..._fuel_..._402_duration: T2}.
C4_PudlNamesBecomeXbrlNames ==
    (/\ rename_dict = ScenarioRenameDict
     /\ raw_before = PudlKeyed("T1", "T2")
     /\ pc # "rename")
    => (pc = "renamed" /\ ferc1_xbrl_raw_dfs = XbrlKeyed("T1", "T2"))

\* C4 amended: from the XBRL-keyed set {steam_..._402_duration: t1,
\* steam_..._fuel_..._402_duration: t2} the rename loop produces the PUDL-keyed
\* set {plants_steam_ferc1_duration: t1, fuel_ferc1_duration: t2}: the loop
\* removes the XBRL-style key and inserts the PUDL-style key.
C4_XbrlNamesBecomePudlNames ==
    \A t1, t2 \in Tables :
        (/\ rename_dict = ScenarioRenameDict
         /\ raw_before = XbrlKeyed(t1, t2)
         /\ pc # "rename")
        => (pc = "renamed" /\ ferc1_xbrl_raw_dfs = PudlKeyed(t1, t2))

C4_Witness ==
    /\ rename_dict = ScenarioRenameDict
    /\ raw_before = XbrlKeyed("T1", "T2")
    /\ pc = "renamed"
    /\ i = 2

\* C5: plants_steam_ferc1's execute is entered only after fuel_ferc1's execute
\* has returned, never after it raised, and is passed as transformed_fuel the
\* table that call returned.
C5_FuelBeforePlantsSteam ==
    /\ steam_call # <<>> =>
          /\ fuel_call # <<>>
          /\ fuel_df \in FuelResults
          /\ error # "FuelFerc1.execute"
          /\ steam_call[1].transformed_fuel = fuel_df
    /\ pc = "fuel_running" => steam_call = <<>>
    /\ error = "FuelFerc1.execute" => steam_call = <<>> /\ steam_df = None

C5_Witness ==
    /\ pc = "done"
    /\ steam_call # <<>>
    /\ steam_call[1].transformed_fuel = "F2"
    /\ fuel_df = "F2"

\* C6: a dispatch of plants_steam_ferc1 without a transformed_fuel result fails
\* with MissingDependencyError and returns no table; a dispatch of fuel_ferc1
\* with no dependency results succeeds and returns a table.
C6_MissingDependencyFails ==
    dispatch_out # <<>> =>
       LET c == dispatch_call[1]
           o == dispatch_out[1]
       IN  /\ (c.table_name = "plants_steam_ferc1"
                  /\ "transformed_fuel" \notin DOMAIN c.dependency_results)
               => (o.error = "MissingDependencyError" /\ o.table = None)
           /\ (c.table_name = "fuel_ferc1" /\ DOMAIN c.dependency_results = {})
               => (o.error = None /\ o.table \in FuelResults)

C6_Witness ==
    /\ dispatch_out # <<>>
    /\ dispatch_call[1].table_name = "plants_steam_ferc1"
    /\ DOMAIN dispatch_call[1].dependency_results = {}
    /\ dispatch_out[1].error = "MissingDependencyError"

AllZero(statuses) == \A n \in 1..Len(statuses) : statuses[n] = 0

\* C7: the stages start in the order pudl_setup, ferc1_to_sqlite, pudl_etl,
\* pytest test/unit; a stage starts only when every earlier stage exited with 0,
\* nothing starts after the first failing stage, and run_pudl_etl returns 0
\* exactly when all four stages exited with 0.
C7_StagesInOrder ==
    /\ Len(started) <= Len(Stages)
    /\ \A n \in 1..Len(started) : started[n] = Stages[n]
    /\ Len(stage_status) = Len(started)
    /\ \A n \in 1..Len(started) : \A m \in 1..(n - 1) : stage_status[m] = 0
    /\ \A n \in 1..Len(stage_status) : stage_status[n] # 0 => Len(started) = n
    /\ PIPESTATUS # <<>> =>
          (PIPESTATUS[1] = 0 <=> (Len(stage_status) = Len(Stages) /\ AllZero(stage_status)))

C7_Witness ==
    /\ PIPESTATUS # <<>>
    /\ PIPESTATUS[1] # 0
    /\ started = <<"pudl_setup", "ferc1_to_sqlite", "pudl_etl">>
    /\ ignored_status = <<1, 1>>

\* C8: whatever run_pudl_etl returned, the output directory is eventually
\* copied to GCS, exactly once, and only after run_pudl_etl has finished and
\* the final status message has been posted.
C8_ShutdownAlwaysRuns ==
    /\ <>(gcs_copies = 1)
    /\ [](gcs_copies <= 1)
    /\ [](gcs_copies = 1 => (PIPESTATUS # <<>> /\ Len(slack_msgs) = 2))

C8_Witness ==
    /\ gcs_copies = 1
    /\ PIPESTATUS # <<>>
    /\ PIPESTATUS[1] # 0
    /\ Len(stage_status) = 1

\* C9: the first message posted is the 'Deployment started' one, posted before
\* any stage starts, and once run_pudl_etl has ended exactly one more message is
\* posted: the text notify_slack builds for "success" when run_pudl_etl
\* returned 0 and for "failure" otherwise.
C9_FinalMessageIsNotifySlack ==
    /\ started # <<>> => (slack_msgs # <<>> /\ slack_msgs[1] = StartedText(github_sha_ref))
    /\ PIPESTATUS = <<>> => Len(slack_msgs) <= 1
    /\ sh_pc \in {"shutdown_vm", "exit"} =>
          /\ Len(slack_msgs) = 2
          /\ slack_msgs[2] = NotifySlackText(IF PIPESTATUS[1] = 0 THEN "success"
                                                                  ELSE "failure",
                                             github_sha_ref)

\* C10: when the XBRL extraction holds exactly the three configured tables, the
\* rename loop completes, leaves no table under an XBRL-style key, and the
\* lookups made for the two execute() calls return the data extracted under the
\* corresponding XBRL name, fuel_ferc1's instant input being absent.
C10_RenamedTablesReachDispatch ==
    DOMAIN raw_before = XbrlSettingsTables =>
       /\ error # "KeyError"
       /\ pc # "rename" =>
             /\ DOMAIN ferc1_xbrl_raw_dfs \cap XbrlSettingsTables = {}
             /\ Cardinality(DOMAIN ferc1_xbrl_raw_dfs) = 3
       /\ fuel_call # <<>> =>
             /\ fuel_call[1].raw_xbrl_duration = raw_before[XBRL_FUEL_DURATION]
             /\ fuel_call[1].raw_xbrl_instant = None
       /\ steam_call # <<>> =>
             /\ steam_call[1].args.raw_xbrl_duration = raw_before[XBRL_STEAM_DURATION]
             /\ steam_call[1].args.raw_xbrl_instant = raw_before[XBRL_STEAM_INSTANT]

C10_Witness ==
    /\ DOMAIN raw_before = XbrlSettingsTables
    /\ raw_before[XBRL_STEAM_DURATION] = "T1"
    /\ raw_before[XBRL_STEAM_INSTANT] = "T2"
    /\ raw_before[XBRL_FUEL_DURATION] = "T3"
    /\ steam_call # <<>>
    /\ pc = "done"

====
